---- MODULE Spec2Model ----
(***************************************************************************)
(* Model of src/src/components/repositories/RepositorySettings.tsx: the    *)
(* repository settings form.  The React state (initialSettings, settings,  *)
(* additionalEnvironmentToAdd), the event handlers that edit it, the save  *)
(* mutation and the handlers of its response.                              *)
(*                                                                         *)
(* A JavaScript string is modelled as a sequence of one-character strings, *)
(* an array as a sequence, a settings object as a record with the field    *)
(* names of the GraphQL fragment.                                          *)
(***************************************************************************)
EXTENDS Integers, Sequences, FiniteSets, TLC

VARIABLES
  initialSettings,             \* useState(repository.settings), line 37: the saved snapshot
  settings,                    \* useState(repository.settings), line 38: the draft
  additionalEnvironmentToAdd,  \* useState(''), line 39: the pending environment line
  inFlight,                    \* mutations committed and not yet answered
  nSaves,                      \* number of save requests issued so far
  nEdits,                      \* number of input events handled so far
  lastSent,                    \* history: the save request issued most recently
  lastEvent                    \* history: the handler that ran last, with its arguments

vars == <<initialSettings, settings, additionalEnvironmentToAdd, inFlight, nSaves, nEdits,
          lastSent, lastEvent>>

----------------------------------------------------------------------------
(* Bounds of the model *)

MaxEdits == 2
MaxSaves == 2
MaxEnv == 3
MaxTextLen == 5

----------------------------------------------------------------------------
(* Values *)

DecryptValues == {"USERS_WITH_WRITE_PERMISSIONS", "COLLABORATORS", "EVERYONE"}

StrategyValues == {"SAME_SHA", "MERGE_FOR_PRS", "DEFAULT_BRANCH"}

SelectFields == {"decryptEnvironmentVariables", "configResolutionStrategy"}

MenuItems(field) ==
  IF field = "decryptEnvironmentVariables" THEN DecryptValues ELSE StrategyValues

\* Texts a user types into the pending environment line input.
EnvLineTexts == { <<>>, <<"a">>, <<"b">> }

\* Texts a user leaves in the OIDC claims input.
OidcTexts == { <<>>, <<"a">>, <<"a", ",">>, <<"a", ",", "b">> }

\* The settings the fragment supplies when the component is mounted.
RepositorySettingsValues ==
  { [ needsApproval |-> FALSE,
      decryptEnvironmentVariables |-> "USERS_WITH_WRITE_PERMISSIONS",
      configResolutionStrategy |-> "SAME_SHA",
      additionalEnvironment |-> env,
      cacheVersion |-> 3,
      oidcSubIncludeClaimKeys |-> <<>> ] : env \in { <<>>, << <<"a">> >> } }

Range(seq) == { seq[i] : i \in 1..Len(seq) }

----------------------------------------------------------------------------
(* JavaScript library functions used by the component *)

\* String.prototype.split(','): no trimming, empty segments kept.
RECURSIVE SplitFrom(_, _)
SplitFrom(text, cur) ==
  IF text = <<>> THEN << cur >>
  ELSE IF Head(text) = ","
       THEN << cur >> \o SplitFrom(Tail(text), <<>>)
       ELSE SplitFrom(Tail(text), Append(cur, Head(text)))

\* Mutant of split: empty segments are dropped.
split_dropEmpty(text) == SelectSeq(SplitFrom(text, <<>>), LAMBDA seg : seg # <<>>)

split(text) == SplitFrom(text, <<>>)

\* Array.prototype.join(','), line 174: the text the OIDC input shows.
RECURSIVE join(_)
join(arr) ==
  IF arr = <<>> THEN <<>>
  ELSE IF Len(arr) = 1 THEN arr[1]
       ELSE arr[1] \o <<",">> \o join(Tail(arr))

\* Mutant of filter: only the first element equal to line is removed.
RECURSIVE filter_firstOnly(_, _)
filter_firstOnly(arr, line) ==
  IF arr = <<>> THEN <<>>
  ELSE IF Head(arr) = line THEN Tail(arr)
       ELSE << Head(arr) >> \o filter_firstOnly(Tail(arr), line)

\* Array.prototype.filter(value => line !== value)
filter(arr, line) == SelectSeq(arr, LAMBDA value : line # value)

\* Array.prototype.concat(x)
concat(arr, x) == Append(arr, x)

\* JSON.stringify of a string: quotes around it, '"' and '\' escaped.
RECURSIVE EscapeString(_)
EscapeString(s) ==
  IF s = <<>> THEN <<>>
  ELSE (IF Head(s) \in {"\"", "\\"} THEN <<"\\", Head(s)>> ELSE << Head(s) >>)
       \o EscapeString(Tail(s))

QuoteString(s) == <<"\"">> \o EscapeString(s) \o <<"\"">>

RECURSIVE JoinQuoted(_)
JoinQuoted(arr) ==
  IF arr = <<>> THEN <<>>
  ELSE IF Len(arr) = 1 THEN QuoteString(arr[1])
       ELSE QuoteString(arr[1]) \o <<",">> \o JoinQuoted(Tail(arr))

\* Mutant of JSONstringify: the elements are joined with ',' and not quoted.
RECURSIVE JoinPlain(_)
JoinPlain(arr) ==
  IF arr = <<>> THEN <<>>
  ELSE IF Len(arr) = 1 THEN arr[1]
       ELSE arr[1] \o <<",">> \o JoinPlain(Tail(arr))

JSONstringify_join(arr) == JoinPlain(arr)

\* JSON.stringify of an array of strings.
JSONstringify(arr) == <<"[">> \o JoinQuoted(arr) \o <<"]">>

----------------------------------------------------------------------------
(* The event handlers, as functions of the state their closures read *)

\* Mutant of changeField: the value is stored under a fixed key, whatever the field.
changeField_fixedKey(s, field, value) == [s EXCEPT !.configResolutionStrategy = value]

\* changeField(field)(event), lines 41-49; value is event.target.value.
changeField(s, field, value) == [s EXCEPT ![field] = value]

\* Mutant of setClearCaches: counts from the draft instead of the saved snapshot.
setClearCaches_fromDraft(s, init, checked) ==
  LET cacheVersion == IF checked THEN s.cacheVersion + 1 ELSE s.cacheVersion
  IN  [s EXCEPT !.cacheVersion = cacheVersion]

\* Mutant of setClearCaches: the saved snapshot is spread instead of the draft.
setClearCaches_spreadsInitial(s, init, checked) ==
  LET cacheVersion == IF checked THEN init.cacheVersion + 1 ELSE init.cacheVersion
  IN  [init EXCEPT !.cacheVersion = cacheVersion]

\* setClearCaches(event, checked), lines 51-58.
setClearCaches(s, init, checked) ==
  LET cacheVersion == IF checked THEN init.cacheVersion + 1 ELSE init.cacheVersion
  IN  [s EXCEPT !.cacheVersion = cacheVersion]

\* toggleField(field)(event), lines 60-67.
toggleField(s, field) == [s EXCEPT ![field] = ~s[field]]

\* Mutant of addNewEnvVariable: an empty or already listed line is not appended.
addNewEnvVariable_checked(s, toAdd) ==
  IF toAdd = <<>> \/ toAdd \in Range(s.additionalEnvironment)
  THEN s
  ELSE [s EXCEPT !.additionalEnvironment = concat(s.additionalEnvironment, toAdd)]

\* addNewEnvVariable(), lines 69-75: the new value of settings.
addNewEnvVariable(s, toAdd) ==
  [s EXCEPT !.additionalEnvironment = concat(s.additionalEnvironment, toAdd)]

\* deleteEnv(line), lines 77-82.
deleteEnv(s, line) ==
  [s EXCEPT !.additionalEnvironment = filter(s.additionalEnvironment, line)]

\* onChange of the oidc-sub-extra-claims input, lines 175-180.
changeOidc(s, text) == [s EXCEPT !.oidcSubIncludeClaimKeys = split(text)]

\* The identifier of the repository the fragment was read for.
RepositoryId == "R1"

\* Mutant of SaveInput: the OIDC claim keys are not copied into the input.
SaveInput_noOidc(s) ==
  [ clientMutationId |-> <<"save-settings-", RepositoryId>>,
    repositoryId |-> RepositoryId,
    needsApproval |-> s.needsApproval,
    decryptEnvironmentVariables |-> s.decryptEnvironmentVariables,
    configResolutionStrategy |-> s.configResolutionStrategy,
    additionalEnvironment |-> s.additionalEnvironment,
    cacheVersion |-> s.cacheVersion,
    oidcSubIncludeClaimKeys |-> <<>> ]

\* variables.input of onSave, lines 100-111.  concat() copies the two arrays.
SaveInput(s) ==
  [ clientMutationId |-> <<"save-settings-", RepositoryId>>,
    repositoryId |-> RepositoryId,
    needsApproval |-> s.needsApproval,
    decryptEnvironmentVariables |-> s.decryptEnvironmentVariables,
    configResolutionStrategy |-> s.configResolutionStrategy,
    additionalEnvironment |-> s.additionalEnvironment,
    cacheVersion |-> s.cacheVersion,
    oidcSubIncludeClaimKeys |-> s.oidcSubIncludeClaimKeys ]

\* No save request has been issued yet.
NoRequest == [seq |-> 0]

\* errors of onCompleted is null or a list of payload errors; <<>> stands for null.
NoErrors == <<>>

\* Mutant of onCompleted: the early return on errors is missing.
onCompleted_noErrorCheck(init, response, errors) == response.saveSettings.settings

\* Mutant of onCompleted: the response is never stored.
onCompleted_keepsOld(init, response, errors) == init

\* onCompleted(response, errors), lines 115-121: the next value of initialSettings.
onCompleted(init, response, errors) ==
  IF errors # NoErrors THEN init ELSE response.saveSettings.settings

\* areSettingsTheSame, lines 126-132.
areSettingsTheSame(s, init) ==
  /\ s.needsApproval = init.needsApproval
  /\ s.configResolutionStrategy = init.configResolutionStrategy
  /\ JSONstringify(s.additionalEnvironment) = JSONstringify(init.additionalEnvironment)
  /\ JSONstringify(s.oidcSubIncludeClaimKeys) = JSONstringify(init.oidcSubIncludeClaimKeys)
  /\ s.decryptEnvironmentVariables = init.decryptEnvironmentVariables
  /\ s.cacheVersion = init.cacheVersion

\* Mutant of SaveDisabled: the button is never disabled.
SaveDisabled_never == FALSE

\* disabled prop of the Save button, line 230.
SaveDisabled == areSettingsTheSame(settings, initialSettings)

\* checked prop of the "Clear all repository caches" checkbox, line 221.
ClearCachesChecked == initialSettings.cacheVersion # settings.cacheVersion

----------------------------------------------------------------------------
(* The remote system: what it answers to a saveSettings mutation *)

SettingsOfInput(input) ==
  [ needsApproval |-> input.needsApproval,
    decryptEnvironmentVariables |-> input.decryptEnvironmentVariables,
    configResolutionStrategy |-> input.configResolutionStrategy,
    additionalEnvironment |-> input.additionalEnvironment,
    cacheVersion |-> input.cacheVersion,
    oidcSubIncludeClaimKeys |-> input.oidcSubIncludeClaimKeys ]

\* A normalisation the remote system may apply: empty entries are dropped.
Normalized(s) ==
  [s EXCEPT !.additionalEnvironment = SelectSeq(@, LAMBDA x : x # <<>>),
            !.oidcSubIncludeClaimKeys = SelectSeq(@, LAMBDA x : x # <<>>)]

\* response of onCompleted: the settings selected by the mutation, lines 86-95.
Responses(input) ==
  { [saveSettings |-> [settings |-> st]] :
      st \in { SettingsOfInput(input), Normalized(SettingsOfInput(input)) } }

----------------------------------------------------------------------------
(* Initial state: the component has been mounted *)

Init ==
  /\ initialSettings \in RepositorySettingsValues
  /\ settings = initialSettings
  /\ additionalEnvironmentToAdd = <<>>
  /\ inFlight = {}
  /\ nSaves = 0
  /\ nEdits = 0
  /\ lastSent = NoRequest
  /\ lastEvent = [op |-> "mount"]

----------------------------------------------------------------------------
(* Input events *)

Edited == nEdits' = nEdits + 1

\* Switch needsApproval, line 138.
ToggleField ==
  /\ nEdits < MaxEdits
  /\ settings' = toggleField(settings, "needsApproval")
  /\ lastEvent' = [op |-> "toggleField", field |-> "needsApproval"]
  /\ Edited
  /\ UNCHANGED <<initialSettings, additionalEnvironmentToAdd, inFlight, nSaves, lastSent>>

\* The two Select inputs, lines 144-166.
ChangeField ==
  /\ nEdits < MaxEdits
  /\ \E field \in SelectFields : \E value \in MenuItems(field) :
       /\ settings' = changeField(settings, field, value)
       /\ lastEvent' = [op |-> "changeField", field |-> field, value |-> value]
  /\ Edited
  /\ UNCHANGED <<initialSettings, additionalEnvironmentToAdd, inFlight, nSaves, lastSent>>

\* The checkbox, lines 220-223: a click delivers the negation of what it shows.
SetClearCaches ==
  /\ nEdits < MaxEdits
  /\ LET checked == ~ClearCachesChecked
     IN  /\ settings' = setClearCaches(settings, initialSettings, checked)
         /\ lastEvent' = [op |-> "setClearCaches", checked |-> checked]
  /\ Edited
  /\ UNCHANGED <<initialSettings, additionalEnvironmentToAdd, inFlight, nSaves, lastSent>>

\* The oidc-sub-extra-claims input, lines 172-181.
ChangeOidc ==
  /\ nEdits < MaxEdits
  /\ \E text \in OidcTexts :
       /\ settings' = changeOidc(settings, text)
       /\ lastEvent' = [op |-> "changeOidc", value |-> text]
  /\ Edited
  /\ UNCHANGED <<initialSettings, additionalEnvironmentToAdd, inFlight, nSaves, lastSent>>

\* The override-env-var input, line 207.
SetAdditionalEnvironmentToAdd ==
  /\ nEdits < MaxEdits
  /\ \E text \in EnvLineTexts :
       /\ additionalEnvironmentToAdd' = text
       /\ lastEvent' = [op |-> "setAdditionalEnvironmentToAdd", value |-> text]
  /\ Edited
  /\ UNCHANGED <<initialSettings, settings, inFlight, nSaves, lastSent>>

\* The add button, line 210.
AddNewEnvVariable ==
  /\ nEdits < MaxEdits
  /\ Len(settings.additionalEnvironment) < MaxEnv
  /\ additionalEnvironmentToAdd' = <<>>
  /\ settings' = addNewEnvVariable(settings, additionalEnvironmentToAdd)
  /\ lastEvent' = [op |-> "addNewEnvVariable", line |-> additionalEnvironmentToAdd]
  /\ Edited
  /\ UNCHANGED <<initialSettings, inFlight, nSaves, lastSent>>

\* The delete button of a listed line, lines 187-196.
DeleteEnv ==
  /\ nEdits < MaxEdits
  /\ \E line \in Range(settings.additionalEnvironment) :
       /\ settings' = deleteEnv(settings, line)
       /\ lastEvent' = [op |-> "deleteEnv", line |-> line]
  /\ Edited
  /\ UNCHANGED <<initialSettings, additionalEnvironmentToAdd, inFlight, nSaves, lastSent>>

\* The Save button, lines 230-232, and onSave, lines 99-124.
OnSave ==
  /\ nSaves < MaxSaves
  /\ ~SaveDisabled
  /\ nSaves' = nSaves + 1
  /\ inFlight' = inFlight \cup { [seq |-> nSaves + 1, input |-> SaveInput(settings)] }
  /\ lastSent' = [seq |-> nSaves + 1, input |-> SaveInput(settings)]
  /\ lastEvent' = [op |-> "onSave", seq |-> nSaves + 1]
  /\ UNCHANGED <<initialSettings, settings, additionalEnvironmentToAdd, nEdits>>

----------------------------------------------------------------------------
(* Responses of the remote system *)

\* onCompleted without errors, lines 115-121.
OnCompletedOk ==
  \E r \in inFlight : \E response \in Responses(r.input) :
    /\ initialSettings' = onCompleted(initialSettings, response, NoErrors)
    /\ inFlight' = inFlight \ {r}
    /\ lastEvent' = [op |-> "onCompleted", seq |-> r.seq, input |-> r.input,
                     response |-> response, errors |-> NoErrors]
    /\ UNCHANGED <<settings, additionalEnvironmentToAdd, nSaves, nEdits, lastSent>>

\* onCompleted with GraphQL errors beside the response, lines 115-119.
OnCompletedErrors ==
  \E r \in inFlight : \E response \in Responses(r.input) :
    /\ initialSettings' = onCompleted(initialSettings, response, <<"error">>)
    /\ inFlight' = inFlight \ {r}
    /\ lastEvent' = [op |-> "onCompleted", seq |-> r.seq, input |-> r.input,
                     response |-> response, errors |-> <<"error">>]
    /\ UNCHANGED <<settings, additionalEnvironmentToAdd, nSaves, nEdits, lastSent>>

\* onError, line 122: the transport failed; console.error only.
OnError ==
  \E r \in inFlight :
    /\ inFlight' = inFlight \ {r}
    /\ lastEvent' = [op |-> "onError", seq |-> r.seq, input |-> r.input]
    /\ UNCHANGED <<initialSettings, settings, additionalEnvironmentToAdd, nSaves, nEdits, lastSent>>

----------------------------------------------------------------------------

Next ==
  \/ ToggleField
  \/ ChangeField
  \/ SetClearCaches
  \/ ChangeOidc
  \/ SetAdditionalEnvironmentToAdd
  \/ AddNewEnvVariable
  \/ DeleteEnv
  \/ OnSave
  \/ OnCompletedOk
  \/ OnCompletedErrors
  \/ OnError

Spec == Init /\ [][Next]_vars

----------------------------------------------------------------------------
(* The dirty check alone: areSettingsTheSame applied to pairs of settings   *)
(* values, lines 126-132 and 230.                                           *)

\* Sequences of strings the two array fields are drawn from.
ArraySamples ==
  { <<>>,
    << <<>> >>,
    << <<"a">> >>,
    << <<"a">>, <<"b">> >>,
    << <<"b">>, <<"a">> >>,
    << <<"a">>, <<"a">> >>,
    << <<"a", ",", "b">> >>,
    << <<"a", "\"", ",", "\"", "b">> >> }

SettingsSamples ==
  [ needsApproval : BOOLEAN,
    decryptEnvironmentVariables : {"USERS_WITH_WRITE_PERMISSIONS", "EVERYONE"},
    configResolutionStrategy : {"SAME_SHA", "DEFAULT_BRANCH"},
    additionalEnvironment : ArraySamples,
    cacheVersion : {3, 4},
    oidcSubIncludeClaimKeys : {<<>>, << <<"a">>, <<"b">> >>, << <<"a", ",", "b">> >>} ]

InitDirty ==
  /\ initialSettings \in SettingsSamples
  /\ settings \in SettingsSamples
  /\ additionalEnvironmentToAdd = <<>>
  /\ inFlight = {}
  /\ nSaves = 0
  /\ nEdits = 0
  /\ lastSent = NoRequest
  /\ lastEvent = [op |-> "mount"]

\* A render of the component: the Save button's disabled prop is computed.
Render ==
  /\ lastEvent.op = "mount"
  /\ lastEvent' = [op |-> "render", disabled |-> SaveDisabled]
  /\ UNCHANGED <<initialSettings, settings, additionalEnvironmentToAdd, inFlight, nSaves, nEdits, lastSent>>

NextDirty == Render

SpecDirty == InitDirty /\ [][NextDirty]_vars

----------------------------------------------------------------------------
(* Vocabulary of the properties *)

\* The settings a response carries.
ResponseSettings(e) == e.response.saveSettings.settings

\* The last handler was onCompleted without errors.
Succeeded(e) == e.op = "onCompleted" /\ e.errors = NoErrors

\* The last handler was onCompleted with errors, or onError.
Failed(e) == (e.op = "onCompleted" /\ e.errors # NoErrors) \/ e.op = "onError"

\* The last handler handled a response.
Answered(e) == e.op \in {"onCompleted", "onError"}

\* Equality of two settings values field by field, the arrays element by element.
SameFields(a, b) ==
  /\ a.needsApproval = b.needsApproval
  /\ a.decryptEnvironmentVariables = b.decryptEnvironmentVariables
  /\ a.configResolutionStrategy = b.configResolutionStrategy
  /\ a.cacheVersion = b.cacheVersion
  /\ Len(a.additionalEnvironment) = Len(b.additionalEnvironment)
  /\ \A i \in 1..Len(a.additionalEnvironment) :
       a.additionalEnvironment[i] = b.additionalEnvironment[i]
  /\ Len(a.oidcSubIncludeClaimKeys) = Len(b.oidcSubIncludeClaimKeys)
  /\ \A i \in 1..Len(a.oidcSubIncludeClaimKeys) :
       a.oidcSubIncludeClaimKeys[i] = b.oidcSubIncludeClaimKeys[i]

----------------------------------------------------------------------------
(* C1 *)

----------------------------------------------------------------------------
(* C2 *)

\* C2: a failed save (GraphQL errors beside the response, or a transport error)
\* changes neither saved, nor the draft, nor the pending line; Save is enabled
\* after it iff it was before, and no request is sent by the failure.
C2_FailureChangesNothing ==
  [][ Failed(lastEvent') =>
        /\ initialSettings' = initialSettings
        /\ settings' = settings
        /\ additionalEnvironmentToAdd' = additionalEnvironmentToAdd
        /\ (SaveDisabled' <=> SaveDisabled)
        /\ inFlight' \subseteq inFlight
        /\ nSaves' = nSaves ]_vars

\* A response with errors was handled while the draft differed from saved and
\* from what the response carried; Save is still enabled.
C2_Witness ==
  /\ lastEvent.op = "onCompleted"
  /\ lastEvent.errors # NoErrors
  /\ ResponseSettings(lastEvent) # initialSettings
  /\ settings # initialSettings
  /\ ~SaveDisabled

----------------------------------------------------------------------------
(* C3 *)

\* C3: saved changes only in the handler of a successful save response; no
\* input event and no failed response changes it.
C3_SavedOnlyBySuccess ==
  [][ initialSettings' # initialSettings => Succeeded(lastEvent') ]_vars

\* Saved has been replaced by a response and then survived an edit of the draft.
C3_Witness ==
  /\ initialSettings \notin RepositorySettingsValues
  /\ lastEvent.op \in {"toggleField", "changeField", "changeOidc", "setClearCaches",
                       "addNewEnvVariable", "deleteEnv", "setAdditionalEnvironmentToAdd"}
  /\ settings # initialSettings

----------------------------------------------------------------------------
(* C4 *)

----------------------------------------------------------------------------
(* C5 *)

\* C5: Save is disabled exactly in the states where the draft equals saved on
\* all six fields, and every save request is issued from a state where they differ.
C5_SaveOnlyWhenDirty ==
  /\ [](SaveDisabled <=> SameFields(settings, initialSettings))
  /\ [][ lastEvent'.op = "onSave" =>
           /\ ~SameFields(settings, initialSettings)
           /\ \E r \in inFlight' \ inFlight : r.seq = lastEvent'.seq ]_vars

\* A save request has just been issued, from a draft that differs from saved.
C5_Witness ==
  /\ lastEvent.op = "onSave"
  /\ \E r \in inFlight : r.seq = lastEvent.seq /\ SettingsOfInput(r.input) = settings
  /\ ~SameFields(settings, initialSettings)

----------------------------------------------------------------------------
(* C6 *)

\* C6: the dirty check finds the settings the same exactly when the four
\* scalar fields are equal and the two arrays are equal as ordered sequences.
C6_DirtyIffDifferent ==
  lastEvent.op = "render" =>
    (lastEvent.disabled <=> SameFields(settings, initialSettings))

\* The draft differs from saved only in the order of the environment lines,
\* and the check found them different.
C6_Witness ==
  /\ lastEvent.op = "render"
  /\ ~lastEvent.disabled
  /\ settings.additionalEnvironment = << <<"b">>, <<"a">> >>
  /\ initialSettings.additionalEnvironment = << <<"a">>, <<"b">> >>
  /\ [settings EXCEPT !.additionalEnvironment = << <<"a">>, <<"b">> >>] = initialSettings

----------------------------------------------------------------------------
(* C7 *)

\* C7: when a save succeeds, the server echoes the payload and the draft still
\* equals the payload (no edit since the save was triggered), then after the
\* response saved equals the draft and Save is disabled.
C7_EchoedSaveLeavesClean ==
  [][ ( /\ Succeeded(lastEvent')
        /\ ResponseSettings(lastEvent') = SettingsOfInput(lastEvent'.input)
        /\ settings = SettingsOfInput(lastEvent'.input) ) =>
        /\ settings' = settings
        /\ initialSettings' = settings'
        /\ SaveDisabled' ]_vars

\* An edited draft was saved and echoed; saved now equals the draft, and is no
\* longer the value the component was mounted with.
C7_Witness ==
  /\ Succeeded(lastEvent)
  /\ ResponseSettings(lastEvent) = SettingsOfInput(lastEvent.input)
  /\ settings = SettingsOfInput(lastEvent.input)
  /\ initialSettings = settings
  /\ initialSettings \notin RepositorySettingsValues
  /\ SaveDisabled

----------------------------------------------------------------------------
(* C8 *)

\* C8: the payload of a save request is the draft as it is when save is
\* triggered, all six fields; input events leave every in-flight payload
\* unchanged, and a response removes its own request and changes no other.
C8_PayloadIsSnapshot ==
  [][ /\ lastEvent'.op = "onSave" =>
           \E r \in inFlight' \ inFlight :
             /\ r.seq = lastEvent'.seq
             /\ SettingsOfInput(r.input) = settings
             /\ r.input.repositoryId = RepositoryId
             /\ inFlight' = inFlight \cup {r}
      /\ (lastEvent'.op # "onSave" /\ ~Answered(lastEvent')) => inFlight' = inFlight
      /\ Answered(lastEvent') =>
           \E r \in inFlight :
             /\ r.seq = lastEvent'.seq
             /\ r.input = lastEvent'.input
             /\ inFlight' = inFlight \ {r} ]_vars

\* An environment line or the OIDC text was edited while a request was in
\* flight: the request still carries the sequences of the draft it was sent from.
C8_Witness ==
  /\ lastEvent.op \in {"addNewEnvVariable", "deleteEnv", "changeOidc"}
  /\ \E r \in inFlight :
       \/ r.input.additionalEnvironment # settings.additionalEnvironment
       \/ r.input.oidcSubIncludeClaimKeys # settings.oidcSubIncludeClaimKeys

----------------------------------------------------------------------------
(* C9 *)

\* C9: checking "clear caches" sets draft.cacheVersion to saved.cacheVersion + 1
\* and unchecking sets it to saved.cacheVersion, saved being read at the event;
\* the checkbox then shows checked, resp. unchecked; and a check directly
\* followed by an uncheck leaves draft.cacheVersion = saved.cacheVersion.
C9_ClearCachesToggle ==
  [][ lastEvent'.op = "setClearCaches" =>
        /\ lastEvent'.checked =>
             /\ settings'.cacheVersion = initialSettings.cacheVersion + 1
             /\ ClearCachesChecked'
        /\ ~lastEvent'.checked =>
             /\ settings'.cacheVersion = initialSettings.cacheVersion
             /\ ~ClearCachesChecked'
        /\ (lastEvent.op = "setClearCaches" /\ lastEvent.checked /\ ~lastEvent'.checked) =>
             /\ settings'.cacheVersion = initialSettings'.cacheVersion
             /\ settings'.cacheVersion = settings.cacheVersion - 1 ]_vars

\* The box was checked and then unchecked, with no save in between: the draft's
\* cacheVersion is the saved one again.
C9_Witness ==
  /\ lastEvent.op = "setClearCaches"
  /\ ~lastEvent.checked
  /\ nEdits = 2
  /\ nSaves = 0
  /\ settings.cacheVersion = initialSettings.cacheVersion
  /\ ~ClearCachesChecked

----------------------------------------------------------------------------
(* C10 *)

\* C10: with a server that echoes what it was sent, saved.cacheVersion never
\* decreases, and no save request carries a cacheVersion lower than
\* saved.cacheVersion at the time it is sent.
C10_CacheVersionMonotonic ==
  [][ /\ ( /\ Succeeded(lastEvent')
           /\ ResponseSettings(lastEvent') = SettingsOfInput(lastEvent'.input) ) =>
           initialSettings'.cacheVersion >= initialSettings.cacheVersion
      /\ lastEvent'.op = "onSave" =>
           \A r \in inFlight' \ inFlight :
             r.input.cacheVersion >= initialSettings.cacheVersion ]_vars

----------------------------------------------------------------------------
(* The environment line editors alone: addNewEnvVariable and deleteEnv      *)
(* applied to drafts with any list of lines and any pending line.           *)

\* All sequences over S of length at most n.
SeqsUpTo(S, n) == UNION { [1..k -> S] : k \in 0..n }

InitEnv ==
  /\ \E base \in RepositorySettingsValues : \E env \in SeqsUpTo(EnvLineTexts, MaxEnv) :
       initialSettings = [base EXCEPT !.additionalEnvironment = env]
  /\ settings = initialSettings
  /\ additionalEnvironmentToAdd \in EnvLineTexts
  /\ inFlight = {}
  /\ nSaves = 0
  /\ nEdits = 0
  /\ lastSent = NoRequest
  /\ lastEvent = [op |-> "mount"]

NextEnv ==
  \/ AddNewEnvVariable
  \/ DeleteEnv

SpecEnv == InitEnv /\ [][NextEnv]_vars

----------------------------------------------------------------------------
(* C11 *)

\* The positions of seq that hold something else than line.
KeptPositions(seq, line) == { i \in 1..Len(seq) : seq[i] # line }

\* r is seq with every element equal to line removed, the others in their order.
RemovedAll(seq, line, r) ==
  /\ Len(r) = Cardinality(KeptPositions(seq, line))
  /\ \A j \in 1..Len(r) : r[j] # line
  /\ \E f \in [1..Len(r) -> KeptPositions(seq, line)] :
       /\ \A j, k \in 1..Len(r) : j < k => f[j] < f[k]
       /\ \A j \in 1..Len(r) : r[j] = seq[f[j]]

\* C11: deleting a line removes every element of the draft's list equal to it
\* and keeps the others in their order; appending L and then deleting L gives
\* the prior list without any L, which is the prior list exactly when it held no L.
C11_DeleteRemovesAll ==
  [][ lastEvent'.op = "deleteEnv" =>
        /\ RemovedAll(settings.additionalEnvironment, lastEvent'.line,
                      settings'.additionalEnvironment)
        /\ ( /\ lastEvent.op = "addNewEnvVariable"
             /\ lastEvent.line = lastEvent'.line
             /\ nEdits = 1 ) =>
             LET prior == initialSettings.additionalEnvironment
             IN  /\ RemovedAll(prior, lastEvent'.line, settings'.additionalEnvironment)
                 /\ (settings'.additionalEnvironment = prior
                       <=> lastEvent'.line \notin Range(prior)) ]_vars

\* "a" was appended to the list "a", "b" and then deleted: both occurrences are
\* gone and the list is "b", not the prior list.
C11_Witness ==
  /\ lastEvent = [op |-> "deleteEnv", line |-> <<"a">>]
  /\ nEdits = 2
  /\ initialSettings.additionalEnvironment = << <<"a">>, <<"b">> >>
  /\ settings.additionalEnvironment = << <<"b">> >>

----------------------------------------------------------------------------
(* The OIDC claims editor alone: the onChange handler of lines 175-180      *)
(* applied to any text of bounded length.                                   *)

OidcAlphabet == {"a", "b", "c", ",", " "}

AllOidcTexts == SeqsUpTo(OidcAlphabet, MaxTextLen)

\* The oidc-sub-extra-claims input receives a text, once after mounting.
ChangeOidcText ==
  /\ lastEvent.op = "mount"
  /\ \E text \in AllOidcTexts :
       /\ settings' = changeOidc(settings, text)
       /\ lastEvent' = [op |-> "changeOidc", value |-> text]
  /\ Edited
  /\ UNCHANGED <<initialSettings, additionalEnvironmentToAdd, inFlight, nSaves, lastSent>>

NextOidc == ChangeOidcText

SpecOidc == Init /\ [][NextOidc]_vars

----------------------------------------------------------------------------
(* C12 *)

\* The number of ',' in a text.
Commas(text) == Cardinality({ i \in 1..Len(text) : text[i] = "," })

\* C12: a change of the OIDC text sets the draft's claim keys to the text split
\* on ',': one element more than the text has commas, no element holding a
\* comma, the elements joined by ',' giving the text back unchanged (nothing
\* trimmed, no empty segment dropped); "a,b,c" gives a, b, c, the empty text
\* gives one empty element, "a," gives a and an empty element.
C12_SplitOnCommas ==
  lastEvent.op = "changeOidc" =>
    LET text == lastEvent.value
        keys == settings.oidcSubIncludeClaimKeys
    IN  /\ Len(keys) = Commas(text) + 1
        /\ \A i \in 1..Len(keys) : "," \notin Range(keys[i])
        /\ join(keys) = text
        /\ text = <<"a", ",", "b", ",", "c">> => keys = << <<"a">>, <<"b">>, <<"c">> >>
        /\ text = <<>> => keys = << <<>> >>
        /\ text = <<"a", ",">> => keys = << <<"a">>, <<>> >>

\* The text "a," was entered: the keys are "a" and the empty string.
C12_Witness ==
  /\ lastEvent = [op |-> "changeOidc", value |-> <<"a", ",">>]
  /\ settings.oidcSubIncludeClaimKeys = << <<"a">>, <<>> >>
  /\ Len(settings.oidcSubIncludeClaimKeys) = 2

----------------------------------------------------------------------------
(* C13 *)

\* The characters the strings of the model are made of.
Characters == OidcAlphabet \cup {"\"", "\\"}

IsString(x) == x \in Seq(Characters)

IsStringSeq(arr) ==
  /\ DOMAIN arr = 1..Len(arr)
  /\ \A i \in 1..Len(arr) : IsString(arr[i])

SettingsFields ==
  { "needsApproval", "decryptEnvironmentVariables", "configResolutionStrategy",
    "additionalEnvironment", "cacheVersion", "oidcSubIncludeClaimKeys" }

ValidSettings(s) ==
  /\ DOMAIN s = SettingsFields
  /\ s.needsApproval \in BOOLEAN
  /\ s.decryptEnvironmentVariables \in DecryptValues
  /\ s.configResolutionStrategy \in StrategyValues
  /\ s.cacheVersion \in Int
  /\ IsStringSeq(s.additionalEnvironment)
  /\ IsStringSeq(s.oidcSubIncludeClaimKeys)

\* C13: in every reachable state the draft is a structurally valid settings
\* value: the six fields, a boolean, two members of their enumerations, an
\* integer and two sequences of strings.
C13_DraftValid == ValidSettings(settings)

\* Two handlers have edited the draft: a select and the OIDC input.
C13_Witness ==
  /\ nEdits = 2
  /\ lastEvent.op = "changeField"
  /\ settings.decryptEnvironmentVariables = "EVERYONE"
  /\ settings.oidcSubIncludeClaimKeys = << <<"a">>, <<>> >>
  /\ ValidSettings(settings)

----------------------------------------------------------------------------
(* C14 *)

\* The step changes no field of the draft but f.
OnlyFieldChanged(f) ==
  /\ DOMAIN settings' = DOMAIN settings
  /\ \A g \in DOMAIN settings \ {f} : settings'[g] = settings[g]

\* C14: each editor replaces one field of the draft and leaves the other five:
\* the toggle negates needsApproval, a select sets its own field to the chosen
\* value, the OIDC input sets oidcSubIncludeClaimKeys, add and delete set
\* additionalEnvironment, clear-caches sets cacheVersion; typing in the pending
\* line leaves the draft alone.
C14_OneFieldPerEditor ==
  [][ /\ lastEvent'.op = "toggleField" =>
           /\ OnlyFieldChanged("needsApproval")
           /\ settings'.needsApproval = ~settings.needsApproval
      /\ lastEvent'.op = "changeField" =>
           /\ OnlyFieldChanged(lastEvent'.field)
           /\ settings'[lastEvent'.field] = lastEvent'.value
      /\ lastEvent'.op = "changeOidc" => OnlyFieldChanged("oidcSubIncludeClaimKeys")
      /\ lastEvent'.op \in {"addNewEnvVariable", "deleteEnv"} =>
           OnlyFieldChanged("additionalEnvironment")
      /\ lastEvent'.op = "setClearCaches" => OnlyFieldChanged("cacheVersion")
      /\ lastEvent'.op = "setAdditionalEnvironmentToAdd" => settings' = settings ]_vars

\* The box was checked in a draft whose needsApproval had been toggled: the
\* toggle is still there.
C14_Witness ==
  /\ lastEvent = [op |-> "setClearCaches", checked |-> TRUE]
  /\ nSaves = 0
  /\ settings.needsApproval # initialSettings.needsApproval
  /\ settings.cacheVersion = initialSettings.cacheVersion + 1

----------------------------------------------------------------------------
(* C15 *)

\* C15: committing the pending line appends the buffer's content, whatever it
\* is, as the last element of the draft's list, keeps the elements before it in
\* their order and empties the buffer.
C15_AddAppendsBuffer ==
  [][ lastEvent'.op = "addNewEnvVariable" =>
        LET old == settings.additionalEnvironment
            new == settings'.additionalEnvironment
        IN  /\ lastEvent'.line = additionalEnvironmentToAdd
            /\ Len(new) = Len(old) + 1
            /\ new[Len(new)] = additionalEnvironmentToAdd
            /\ \A i \in 1..Len(old) : new[i] = old[i]
            /\ additionalEnvironmentToAdd' = <<>> ]_vars

\* "a" was appended to a list that held it, then the emptied buffer was
\* committed again: the list ends with a second "a" and an empty line.
C15_Witness ==
  /\ lastEvent = [op |-> "addNewEnvVariable", line |-> <<>>]
  /\ nEdits = 2
  /\ initialSettings.additionalEnvironment = << <<"a">> >>
  /\ settings.additionalEnvironment = << <<"a">>, <<"a">>, <<>> >>
  /\ additionalEnvironmentToAdd = <<>>

----------------------------------------------------------------------------
(* The form with a remote system that accepts every save and echoes it *)

\* onCompleted without errors, lines 115-121, the response echoing the input.
OnCompletedEcho ==
  \E r \in inFlight :
    LET response == [saveSettings |-> [settings |-> SettingsOfInput(r.input)]]
    IN  /\ initialSettings' = onCompleted(initialSettings, response, NoErrors)
        /\ inFlight' = inFlight \ {r}
        /\ lastEvent' = [op |-> "onCompleted", seq |-> r.seq, input |-> r.input,
                         response |-> response, errors |-> NoErrors]
        /\ UNCHANGED <<settings, additionalEnvironmentToAdd, nSaves, nEdits, lastSent>>

NextEcho ==
  \/ ToggleField
  \/ ChangeField
  \/ SetClearCaches
  \/ ChangeOidc
  \/ SetAdditionalEnvironmentToAdd
  \/ AddNewEnvVariable
  \/ DeleteEnv
  \/ OnSave
  \/ OnCompletedEcho

SpecEcho == Init /\ [][NextEcho]_vars

----------------------------------------------------------------------------
(* C16 *)

\* C16: once every save request issued has been answered, all successfully and
\* echoed, saved equals the payload of the request issued last, in whatever
\* order the responses arrived.
C16_LastIssuedWins ==
  (nSaves > 0 /\ inFlight = {}) =>
    initialSettings = SettingsOfInput(lastSent.input)

----------------------------------------------------------------------------
(* C17 *)

\* C17: in every reachable state the draft's cacheVersion is saved.cacheVersion
\* or saved.cacheVersion + 1.
C17_DraftCacheVersionNearSaved ==
  settings.cacheVersion \in
    { initialSettings.cacheVersion, initialSettings.cacheVersion + 1 }

====
